---- MODULE Spec2Model ----
(***************************************************************************)
(* Model of solana-th-exporter: SolanaTHService::fetch_transactions and    *)
(* the per-transaction pipeline it drives (process_transaction_3,          *)
(* calculate_balance_changes, classify_transaction_type,                   *)
(* get_token_symbol_2), main, and FileExporterService's                    *)
(* save_transactions_to_csv.                                               *)
(*                                                                         *)
(* Representation.  The source computes amounts in f64 display units       *)
(* (lamports / 1_000_000_000.0, token ui_amount).  Here every decimal is   *)
(* held exactly, as the integer number of 1/SCALE parts it consists of:    *)
(* the decimal x / SCALE is the integer x.  So a lamport count L divided   *)
(* by SCALE is the decimal whose part count is L, and a token ui_amount is *)
(* given by its part count.  Float rounding is not modelled.               *)
(* Option<T> is a sequence of length at most one: None is <<>>, Some(x) is *)
(* <<x>>.  Text written to the output file is a sequence of tokens: a     *)
(* token is either the comma "," or a piece of text holding no comma.      *)
(***************************************************************************)
EXTENDS Integers, Sequences, FiniteSets, TLC

VARIABLES
    chain,                 \* the ledger: what the RPC node answers, per listed signature
    operation_limit,       \* argument of fetch_transactions (0 = unbounded)
    pc,                    \* position in fetch_transactions
    confirmed_signatures,  \* result of get_signatures_for_address
    cursor,                \* number of elements the for loop has taken
    index,                 \* the processed counter
    records,               \* the Vec<TransactionRecord> being accumulated
    fetched,               \* signatures passed to get_transaction_with_config, in call order
    detected,              \* the "Detected transaction: Type" log lines, in order
    symbol_calls,          \* per record built, the mints passed to get_token_symbol_2
    args,                  \* the parsed command line (Cli)
    main_pc,               \* position in main
    exit_code,             \* the status the process ended with, once it has
    file,                  \* transactions.csv: None while absent, else its lines
    save_calls             \* results of the save_transactions_to_csv calls, in order

mainvars == <<args, main_pc, exit_code, file, save_calls>>

vars == <<chain, operation_limit, pc, confirmed_signatures, cursor, index, records,
          fetched, detected, symbol_calls, args, main_pc, exit_code, file, save_calls>>

----------------------------------------------------------------------------
(* Bounds and program constants *)

MaxSigs == 2
MaxLamports == 3
MaxUiAmount == 2

SCALE == 1000000000

None == <<>>
Some(x) == <<x>>
IsSome(o) == Len(o) = 1
Unwrap(o) == o[1]
UnwrapOr(o, d) == IF IsSome(o) THEN o[1] ELSE d

Min(a, b) == IF a <= b THEN a ELSE b
Max(a, b) == IF a >= b THEN a ELSE b
Abs(a) == IF a < 0 THEN 0 - a ELSE a

\* x as f64 / 1_000_000_000.0, as a part count (see Representation)
DivScale(x) == x

SOL == "SOL"

Wallet == "W"
Other == "O"

Mints == {"M1", "M2"}

----------------------------------------------------------------------------
(* SymbolResolver: the metadata account found at the mint's derived address *)

\* what client.get_account(&metadata_pda) and safe_deserialize yield, per mint
MetadataAccount(mint) ==
    CASE mint = "M1" -> [found |-> TRUE, wellformed |-> TRUE, symbol |-> "USDC  "]
      [] mint = "M3" -> [found |-> TRUE, wellformed |-> FALSE, symbol |-> ""]
      [] mint = "M4" -> [found |-> TRUE, wellformed |-> TRUE, symbol |-> "A,B"]
      [] mint = "M5" -> [found |-> TRUE, wellformed |-> TRUE, symbol |-> "N/A"]
      [] OTHER       -> [found |-> FALSE, wellformed |-> FALSE, symbol |-> ""]

\* str::trim on the symbols of the model
Trim(s) == IF s = "USDC  " THEN "USDC" ELSE s

\* strings that are not the base58 form of 32 bytes
InvalidAddresses == {"", "0OIl"}

\* Pubkey::from_str(..) succeeds
ValidPubkey(addr) == addr \notin InvalidAddresses

get_token_symbol_2(mint_address) ==
    IF ~ValidPubkey(mint_address) THEN None
    ELSE LET account == MetadataAccount(mint_address)
         IN IF account.found /\ account.wellformed
            THEN Some(Trim(account.symbol))
            ELSE None

----------------------------------------------------------------------------
(* BalanceDeltaExtractor *)

\* the balance at the last index whose account key is the wallet
FirstWalletBalance_Last(balances, account_keys, wallet) ==
    LET hits == {i \in 1..Len(balances) : i <= Len(account_keys) /\ account_keys[i] = wallet}
    IN IF hits = {} THEN None
       ELSE Some(balances[CHOOSE i \in hits : \A j \in hits : j <= i])

\* find_map over balances.iter().enumerate(): the balance at the first index
\* whose account key is the wallet
FirstWalletBalance(balances, account_keys, wallet) ==
    LET hits == {i \in 1..Len(balances) : i <= Len(account_keys) /\ account_keys[i] = wallet}
    IN IF hits = {} THEN None
       ELSE Some(balances[CHOOSE i \in hits : \A j \in hits : i <= j])

\* the pair matches by owner and mint alone, the wallet need not be an
\* account key
TokenPairMatches_AnyKeys(pre_balance, post_balance, account_keys, wallet) ==
    /\ pre_balance.owner = Some(wallet)
    /\ pre_balance.mint = post_balance.mint

\* the condition of the `if let Some(account_index) = ...position(..)`
TokenPairMatches(pre_balance, post_balance, account_keys, wallet) ==
    \E i \in 1..Len(account_keys) :
        /\ account_keys[i] = wallet
        /\ pre_balance.owner = Some(wallet)
        /\ pre_balance.mint = post_balance.mint

\* the mint is written only for a pair whose amount grew
RECURSIVE TokenLoop_MintOnIncrease(_, _, _, _, _, _)
TokenLoop_MintOnIncrease(pre, post, i, account_keys, wallet, acc) ==
    IF i > Min(Len(pre), Len(post)) THEN acc
    ELSE IF TokenPairMatches(pre[i], post[i], account_keys, wallet)
         THEN LET difference == UnwrapOr(post[i].ui_amount, 0) - UnwrapOr(pre[i].ui_amount, 0)
              IN TokenLoop_MintOnIncrease(pre, post, i + 1, account_keys, wallet,
                     [token_change |-> acc.token_change + difference,
                      token_mint |-> IF difference > 0 THEN Some(pre[i].mint)
                                     ELSE acc.token_mint])
         ELSE TokenLoop_MintOnIncrease(pre, post, i + 1, account_keys, wallet, acc)

\* the mint is written once only: the first pair with a difference keeps it
RECURSIVE TokenLoop_FirstMintKept(_, _, _, _, _, _)
TokenLoop_FirstMintKept(pre, post, i, account_keys, wallet, acc) ==
    IF i > Min(Len(pre), Len(post)) THEN acc
    ELSE IF TokenPairMatches(pre[i], post[i], account_keys, wallet)
         THEN LET difference == UnwrapOr(post[i].ui_amount, 0) - UnwrapOr(pre[i].ui_amount, 0)
              IN TokenLoop_FirstMintKept(pre, post, i + 1, account_keys, wallet,
                     [token_change |-> acc.token_change + difference,
                      token_mint |-> IF difference /= 0 /\ ~IsSome(acc.token_mint)
                                     THEN Some(pre[i].mint)
                                     ELSE acc.token_mint])
         ELSE TokenLoop_FirstMintKept(pre, post, i + 1, account_keys, wallet, acc)

\* the for loop over pre.iter().zip(post.iter()), from pair i on;
\* acc = [token_change, token_mint]
RECURSIVE TokenLoop(_, _, _, _, _, _)
TokenLoop(pre, post, i, account_keys, wallet, acc) ==
    IF i > Min(Len(pre), Len(post)) THEN acc
    ELSE IF TokenPairMatches(pre[i], post[i], account_keys, wallet)
         THEN LET pre_amount == UnwrapOr(pre[i].ui_amount, 0)
                  post_amount == UnwrapOr(post[i].ui_amount, 0)
                  difference == post_amount - pre_amount
              IN TokenLoop(pre, post, i + 1, account_keys, wallet,
                     [token_change |-> acc.token_change + difference,
                      token_mint |-> IF difference /= 0 THEN Some(pre[i].mint)
                                     ELSE acc.token_mint])
         ELSE TokenLoop(pre, post, i + 1, account_keys, wallet, acc)

NativeChange(meta, account_keys, wallet) ==
    LET pre_balance == FirstWalletBalance(meta.pre_balances, account_keys, wallet)
        post_balance == FirstWalletBalance(meta.post_balances, account_keys, wallet)
    IN IF IsSome(pre_balance) /\ IsSome(post_balance)
       THEN DivScale(Unwrap(post_balance) - Unwrap(pre_balance))
       ELSE 0

\* the fee charged to the wallet only when it is the fee payer (the first
\* account key)
calculate_FeeOnlyForPayer(meta, wallet, message) ==
    LET sol_change == NativeChange(meta, message.account_keys, wallet)
        tok == IF IsSome(meta.pre_token_balances) /\ IsSome(meta.post_token_balances)
               THEN TokenLoop(Unwrap(meta.pre_token_balances),
                              Unwrap(meta.post_token_balances), 1,
                              message.account_keys, wallet,
                              [token_change |-> 0, token_mint |-> None])
               ELSE [token_change |-> 0, token_mint |-> None]
        fee == IF Len(message.account_keys) >= 1 /\ message.account_keys[1] = wallet
               THEN DivScale(meta.fee) ELSE 0
    IN [sol_change |-> sol_change - fee,
        token_change |-> tok.token_change,
        token_mint |-> tok.token_mint]

\* an absent token-balance section ends the function early, before the
\* native balances are read
calculate_EarlyReturnWithoutTokens(meta, wallet, message) ==
    IF IsSome(meta.pre_token_balances) /\ IsSome(meta.post_token_balances)
    THEN LET sol_change == NativeChange(meta, message.account_keys, wallet)
             tok == TokenLoop(Unwrap(meta.pre_token_balances),
                              Unwrap(meta.post_token_balances), 1,
                              message.account_keys, wallet,
                              [token_change |-> 0, token_mint |-> None])
         IN [sol_change |-> sol_change - DivScale(meta.fee),
             token_change |-> tok.token_change,
             token_mint |-> tok.token_mint]
    ELSE [sol_change |-> 0, token_change |-> 0, token_mint |-> None]

calculate_balance_changes(meta, wallet, message) ==
    LET sol_change == NativeChange(meta, message.account_keys, wallet)
        tok == IF IsSome(meta.pre_token_balances) /\ IsSome(meta.post_token_balances)
               THEN TokenLoop(Unwrap(meta.pre_token_balances),
                              Unwrap(meta.post_token_balances), 1,
                              message.account_keys, wallet,
                              [token_change |-> 0, token_mint |-> None])
               ELSE [token_change |-> 0, token_mint |-> None]
        fee == DivScale(meta.fee)
    IN [sol_change |-> sol_change - fee,
        token_change |-> tok.token_change,
        token_mint |-> tok.token_mint]

----------------------------------------------------------------------------
(* TransactionClassifier *)

\* classify_transaction_type with a catch-all arm for two present deltas
\* placed ahead of the guarded arms
classify_SameSignAsDeposit(sol_difference, token_difference) ==
    CASE IsSome(sol_difference) /\ IsSome(token_difference)
            /\ Unwrap(sol_difference) > 0 /\ Unwrap(token_difference) < 0 -> "Token Swap"
      [] IsSome(sol_difference) /\ ~IsSome(token_difference)
            /\ Unwrap(sol_difference) > 0 -> "SOL Deposit"
      [] IsSome(sol_difference) /\ ~IsSome(token_difference)
            /\ Unwrap(sol_difference) < 0 -> "SOL Withdrawal"
      [] IsSome(token_difference) /\ Unwrap(token_difference) > 0 -> "Token Deposit"
      [] ~IsSome(sol_difference) /\ IsSome(token_difference)
            /\ Unwrap(token_difference) < 0 -> "Token Withdrawal"
      [] IsSome(sol_difference) /\ IsSome(token_difference)
            /\ Unwrap(sol_difference) < 0 /\ Unwrap(token_difference) > 0 -> "Token Purchase"
      [] OTHER -> "Unknown"

\* the match of classify_transaction_type, arms in source order
classify_transaction_type(sol_difference, token_difference) ==
    CASE IsSome(sol_difference) /\ IsSome(token_difference)
            /\ Unwrap(sol_difference) > 0 /\ Unwrap(token_difference) < 0 -> "Token Swap"
      [] IsSome(sol_difference) /\ ~IsSome(token_difference)
            /\ Unwrap(sol_difference) > 0 -> "SOL Deposit"
      [] IsSome(sol_difference) /\ ~IsSome(token_difference)
            /\ Unwrap(sol_difference) < 0 -> "SOL Withdrawal"
      [] ~IsSome(sol_difference) /\ IsSome(token_difference)
            /\ Unwrap(token_difference) > 0 -> "Token Deposit"
      [] ~IsSome(sol_difference) /\ IsSome(token_difference)
            /\ Unwrap(token_difference) < 0 -> "Token Withdrawal"
      [] IsSome(sol_difference) /\ IsSome(token_difference)
            /\ Unwrap(sol_difference) < 0 /\ Unwrap(token_difference) > 0 -> "Token Purchase"
      [] OTHER -> "Unknown"

\* Some(x).filter(|&x| x.abs() > 0.0)
FilterNonZero(x) == IF Abs(x) > 0 THEN Some(x) ELSE None

----------------------------------------------------------------------------
(* RecordBuilder *)

\* Utc.timestamp_opt(..).format("%Y-%m-%d %H:%M:%S") on the timestamps of the model
format_date(timestamp) ==
    IF timestamp = 86400 THEN "1970-01-02 00:00:00" ELSE "1970-01-01 00:00:00"

\* message.account_keys.get(i).cloned().unwrap_or_default(), i counted from 0
AccountKeyOrDefault(account_keys, i) ==
    IF i + 1 <= Len(account_keys) THEN account_keys[i + 1] ELSE ""

\* the amount taken from the native delta whenever that is negative
SentAmount_NativeFirst(sol_change, token_change) ==
    IF sol_change < 0 THEN Some(Abs(sol_change))
    ELSE IF token_change < 0 THEN Some(Abs(token_change))
    ELSE None

SentAmount(sol_change, token_change) ==
    IF sol_change < 0 \/ token_change < 0
    THEN Some(Abs(Min(sol_change, token_change)))
    ELSE None

\* the token branch tested before the native branch
SentCurrency_TokenFirst(sol_change, token_change, token_mint) ==
    IF token_change < 0
    THEN IF IsSome(token_mint) THEN get_token_symbol_2(Unwrap(token_mint)) ELSE None
    ELSE IF sol_change < 0 THEN Some(SOL)
    ELSE None

SentCurrency(sol_change, token_change, token_mint) ==
    IF sol_change < 0 THEN Some(SOL)
    ELSE IF token_change < 0
         THEN IF IsSome(token_mint) THEN get_token_symbol_2(Unwrap(token_mint)) ELSE None
         ELSE None

\* the amount taken from the token delta whenever that is positive
ReceivedAmount_TokenFirst(sol_change, token_change) ==
    IF token_change > 0 THEN Some(token_change)
    ELSE IF sol_change > 0 THEN Some(sol_change)
    ELSE None

\* the smaller of the two deltas reported as received
ReceivedAmount_Smaller(sol_change, token_change) ==
    IF sol_change > 0 \/ token_change > 0
    THEN Some(Min(sol_change, token_change))
    ELSE None

ReceivedAmount(sol_change, token_change) ==
    IF sol_change > 0 \/ token_change > 0
    THEN Some(Max(sol_change, token_change))
    ELSE None

ReceivedCurrency(sol_change, token_change, token_mint) ==
    IF sol_change > 0 THEN Some(SOL)
    ELSE IF token_change > 0
         THEN IF IsSome(token_mint) THEN get_token_symbol_2(Unwrap(token_mint)) ELSE None
         ELSE None

\* the symbol of the mint looked up as soon as the token delta is negative
SentCurrencyCalls_TokenFirst(sol_change, token_change, token_mint) ==
    IF token_change < 0 /\ IsSome(token_mint) THEN <<Unwrap(token_mint)>> ELSE <<>>

\* the mints the sent_currency expression passes to get_token_symbol_2
SentCurrencyCalls(sol_change, token_change, token_mint) ==
    IF sol_change < 0 THEN <<>>
    ELSE IF token_change < 0 /\ IsSome(token_mint) THEN <<Unwrap(token_mint)>>
    ELSE <<>>

\* the mints the received_currency expression passes to get_token_symbol_2
ReceivedCurrencyCalls(sol_change, token_change, token_mint) ==
    IF sol_change > 0 THEN <<>>
    ELSE IF token_change > 0 /\ IsSome(token_mint) THEN <<Unwrap(token_mint)>>
    ELSE <<>>

\* the get_token_symbol_2 calls made while the record literal is evaluated
SymbolCalls(changes) ==
    SentCurrencyCalls(changes.sol_change, changes.token_change, changes.token_mint)
        \o ReceivedCurrencyCalls(changes.sol_change, changes.token_change,
                                 changes.token_mint)

\* the fee left in lamports: the division by SCALE forgotten
FeeAmount_NotScaled(meta) == meta.fee * SCALE

\* let fee_amount = meta.fee as f64 / 1_000_000_000.0
FeeAmount(meta) == DivScale(meta.fee)

\* the amount sent read from the first transfer instruction of the message
\* when there is one
BuildRecord_FromInstructions(tx_hash, tx, changes) ==
    LET transfers == {i \in 1..Len(tx.message.instructions) :
                         tx.message.instructions[i].data.program = "system"}
    IN [date |-> format_date(UnwrapOr(tx.block_time, 0)),
        tx_hash |-> tx_hash,
        tx_src |-> AccountKeyOrDefault(tx.message.account_keys, 0),
        tx_dest |-> AccountKeyOrDefault(tx.message.account_keys, 1),
        sent_amount |->
            IF transfers /= {}
            THEN Some(DivScale(tx.message.instructions[
                          CHOOSE i \in transfers : \A j \in transfers : i <= j].data.lamports))
            ELSE SentAmount(changes.sol_change, changes.token_change),
        sent_currency |-> SentCurrency(changes.sol_change, changes.token_change,
                                       changes.token_mint),
        received_amount |-> ReceivedAmount(changes.sol_change, changes.token_change),
        received_currency |-> ReceivedCurrency(changes.sol_change, changes.token_change,
                                               changes.token_mint),
        fee_amount |-> FeeAmount(Unwrap(tx.meta)),
        fee_currency |-> SOL]

\* the TransactionRecord literal of process_transaction_3
BuildRecord(tx_hash, tx, changes) ==
    [date |-> format_date(UnwrapOr(tx.block_time, 0)),
     tx_hash |-> tx_hash,
     tx_src |-> AccountKeyOrDefault(tx.message.account_keys, 0),
     tx_dest |-> AccountKeyOrDefault(tx.message.account_keys, 1),
     sent_amount |-> SentAmount(changes.sol_change, changes.token_change),
     sent_currency |-> SentCurrency(changes.sol_change, changes.token_change,
                                    changes.token_mint),
     received_amount |-> ReceivedAmount(changes.sol_change, changes.token_change),
     received_currency |-> ReceivedCurrency(changes.sol_change, changes.token_change,
                                            changes.token_mint),
     fee_amount |-> FeeAmount(Unwrap(tx.meta)),
     fee_currency |-> SOL]

\* the value process_transaction_3 returns once the transaction has parsed
ParsedResult(transaction) == [kind |-> "Ok", value |-> Some(transaction)]

\* Result<Option<TransactionRecord>, _>, with the category it logs
process_transaction_3(tx_hash, tx, wallet) ==
    IF ~IsSome(tx.meta)
    THEN [kind |-> "Err", err |-> "Missing transaction metadata"]
    ELSE IF tx.encoding /= "Json"
    THEN [kind |-> "Err", err |-> "Unsupported transaction encoding"]
    ELSE IF tx.message.format /= "Raw"
    THEN [kind |-> "Err", err |-> "Unsupported message format"]
    ELSE LET changes == calculate_balance_changes(Unwrap(tx.meta), wallet, tx.message)
             transaction_type ==
                 classify_transaction_type(FilterNonZero(changes.sol_change),
                                           FilterNonZero(changes.token_change))
         IN ParsedResult(BuildRecord(tx_hash, tx, changes))
                @@ [transaction_type |-> transaction_type,
                    symbol_calls |-> SymbolCalls(changes)]

----------------------------------------------------------------------------
(* The ledger the RPC node serves *)

TokenBalance(account_index, mint, owner, ui_amount) ==
    [account_index |-> account_index, mint |-> mint, owner |-> owner,
     ui_amount |-> ui_amount]

\* UiTransactionStatusMeta, without inner instructions
Meta(fee, pre_balances, post_balances, pre_token_balances, post_token_balances) ==
    [fee |-> fee, pre_balances |-> pre_balances, post_balances |-> post_balances,
     pre_token_balances |-> pre_token_balances,
     post_token_balances |-> post_token_balances,
     inner_instructions |-> None]

\* a transaction whose message holds no instruction
Tx(meta, encoding, format, account_keys, block_time) ==
    [meta |-> meta, encoding |-> encoding,
     message |-> [format |-> format, account_keys |-> account_keys,
                  instructions |-> <<>>],
     block_time |-> block_time]

\* a compiled instruction: a transfer of lamports or a memo
Instruction(program, lamports) ==
    [program_id_index |-> 1, accounts |-> <<0, 1>>,
     data |-> [program |-> program, lamports |-> lamports]]

\* transaction tx with the given top-level and inner instruction lists
WithInstructions(tx, instructions, inner_instructions) ==
    [tx EXCEPT !.message.instructions = instructions,
               !.meta = Some([Unwrap(tx.meta) EXCEPT
                                 !.inner_instructions = inner_instructions])]

Fees == {0, 1}

\* a JSON-encoded transaction with a raw message and metadata
JsonTx(account_keys, fee, pre_balances, post_balances, pre_tb, post_tb) ==
    Tx(Some(Meta(fee, pre_balances, post_balances, pre_tb, post_tb)),
       "Json", "Raw", account_keys, Some(86400))

\* transactions process_transaction_3 rejects
RejectedTxs ==
    {Tx(None, "Json", "Raw", <<Wallet, Other>>, Some(86400)),
     Tx(Some(Meta(1, <<1, 0>>, <<0, 0>>, None, None)), "Binary", "Raw",
        <<Wallet, Other>>, Some(86400)),
     Tx(Some(Meta(1, <<1, 0>>, <<0, 0>>, None, None)), "Json", "Parsed",
        <<Wallet, Other>>, Some(86400))}

\* the token-balance sections of the batch transactions: absent, the wallet's
\* M1 account going 1 -> 0, the wallet's M2 account going 1 -> 2
BatchTokenSections ==
    {<<None, None>>,
     <<Some(<<TokenBalance(1, "M1", Some(Wallet), Some(1))>>),
       Some(<<TokenBalance(1, "M1", Some(Wallet), Some(0))>>)>>,
     <<Some(<<TokenBalance(1, "M2", Some(Wallet), Some(1))>>),
       Some(<<TokenBalance(1, "M2", Some(Wallet), Some(2))>>)>>}

BatchTxs ==
    RejectedTxs \cup
    {JsonTx(<<Wallet, Other>>, fee, <<1, 0>>, <<post, 0>>, tb[1], tb[2]) :
        fee \in Fees, post \in 0..MaxLamports, tb \in BatchTokenSections}

\* what the node holds for one listed signature: whether the signature string
\* parses, and the answer to getTransaction
BadSignature == [signature_wellformed |-> FALSE, response |-> [ok |-> FALSE]]
TransportError == [signature_wellformed |-> TRUE, response |-> [ok |-> FALSE]]
Served(tx) == [signature_wellformed |-> TRUE, response |-> [ok |-> TRUE, tx |-> tx]]

BatchEntries == {BadSignature, TransportError} \cup {Served(tx) : tx \in BatchTxs}

Chains(entries, maxlen) == UNION {[1..n -> entries] : n \in 0..maxlen}

----------------------------------------------------------------------------
(* BatchOrchestrator: fetch_transactions *)

\* main has validated the address and is inside its call of fetch_transactions
MainCalledFetch ==
    /\ main_pc = "fetching"
    /\ args = [address |-> Some(Wallet),
               operation_limit |-> IF operation_limit = 0 THEN None
                                   ELSE Some(operation_limit)]
    /\ exit_code = None
    /\ file = None
    /\ save_calls = <<>>

Init ==
    /\ chain \in Chains(BatchEntries, MaxSigs)
    /\ operation_limit \in 0..MaxSigs
    /\ pc = "start"
    /\ confirmed_signatures = <<>>
    /\ cursor = 0
    /\ index = 0
    /\ records = <<>>
    /\ fetched = <<>>
    /\ detected = <<>>
    /\ symbol_calls = <<>>
    /\ MainCalledFetch

\* get_signatures_for_address(..).expect(..): the listing arrives
GetSignatures ==
    /\ main_pc = "fetching"
    /\ pc = "start"
    /\ confirmed_signatures' =
           [k \in 1..Len(chain) |->
               [signature |-> k, wellformed |-> chain[k].signature_wellformed]]
    /\ pc' = "loop"
    /\ UNCHANGED <<chain, operation_limit, cursor, index, records, fetched, detected, symbol_calls>>
    /\ UNCHANGED mainvars

\* get_signatures_for_address(..).expect(..): the call fails and expect panics
GetSignaturesFails ==
    /\ main_pc = "fetching"
    /\ pc = "start"
    /\ pc' = "panicked"
    /\ UNCHANGED <<chain, operation_limit, confirmed_signatures, cursor, index, records,
                   fetched, detected, symbol_calls>>
    /\ UNCHANGED mainvars

\* client.get_transaction_with_config(&signature, config)
get_transaction(signature) == chain[signature].response

\* the outcome of the outer and inner match for one signature
Outcome(tx_hash, response, wallet) ==
    IF response.ok THEN process_transaction_3(tx_hash, response.tx, wallet)
    ELSE [kind |-> "TransportErr"]

\* a failed parse discards what was accumulated
RecordsAfter_ErrClears(recs, outcome) ==
    IF outcome.kind = "Ok" /\ IsSome(outcome.value)
    THEN Append(recs, Unwrap(outcome.value))
    ELSE IF outcome.kind = "Err" THEN <<>> ELSE recs

\* the new record goes to the front
RecordsAfter_Prepend(recs, outcome) ==
    IF outcome.kind = "Ok" /\ IsSome(outcome.value)
    THEN <<Unwrap(outcome.value)>> \o recs
    ELSE recs

\* the records after the match arms have run
RecordsAfter(recs, outcome) ==
    IF outcome.kind = "Ok" /\ IsSome(outcome.value)
    THEN Append(recs, Unwrap(outcome.value))
    ELSE recs

\* the limit test off by one
LimitReached_OffByOne(limit, idx) == limit > 0 /\ idx > limit

\* the limit test without its operation_limit > 0 guard
LimitReached_Unguarded(limit, idx) == idx >= limit

\* if operation_limit > 0 && index >= operation_limit { break }
LimitReached(limit, idx) == limit > 0 /\ idx >= limit

\* one iteration in which only a signature that gave a record is counted
LoopBody_CountsRecordsOnly ==
    /\ pc = "loop"
    /\ cursor < Len(confirmed_signatures)
    /\ LET signature_info == confirmed_signatures[cursor + 1]
           tx_hash == signature_info.signature
       IN /\ cursor' = cursor + 1
          /\ IF ~signature_info.wellformed
             THEN /\ pc' = "panicked"
                  /\ UNCHANGED <<index, records, fetched, detected, symbol_calls>>
             ELSE LET outcome == Outcome(tx_hash, get_transaction(tx_hash), Wallet)
                  IN /\ fetched' = Append(fetched, tx_hash)
                     /\ records' = RecordsAfter(records, outcome)
                     /\ detected' = IF outcome.kind = "Ok"
                                    THEN Append(detected,
                                             [tx_hash |-> tx_hash,
                                              transaction_type |-> outcome.transaction_type])
                                    ELSE detected
                     /\ symbol_calls' = IF outcome.kind = "Ok"
                                        THEN Append(symbol_calls,
                                                 [tx_hash |-> tx_hash,
                                                  mints |-> outcome.symbol_calls])
                                        ELSE symbol_calls
                     /\ index' = IF outcome.kind = "Ok" THEN index + 1 ELSE index
                     /\ pc' = IF LimitReached(operation_limit, index') THEN "done"
                              ELSE "loop"
    /\ UNCHANGED <<chain, operation_limit, confirmed_signatures>>
    /\ UNCHANGED mainvars

\* one iteration of the for loop
LoopBody ==
    /\ pc = "loop"
    /\ cursor < Len(confirmed_signatures)
    /\ LET signature_info == confirmed_signatures[cursor + 1]
           tx_hash == signature_info.signature
       IN /\ cursor' = cursor + 1
          /\ IF ~signature_info.wellformed
             THEN \* Signature::from_str(..).expect("Invalid signature format")
                  /\ pc' = "panicked"
                  /\ UNCHANGED <<index, records, fetched, detected, symbol_calls>>
             ELSE LET outcome == Outcome(tx_hash, get_transaction(tx_hash), Wallet)
                  IN /\ fetched' = Append(fetched, tx_hash)
                     /\ records' = RecordsAfter(records, outcome)
                     /\ detected' = IF outcome.kind = "Ok"
                                    THEN Append(detected,
                                             [tx_hash |-> tx_hash,
                                              transaction_type |-> outcome.transaction_type])
                                    ELSE detected
                     /\ symbol_calls' = IF outcome.kind = "Ok"
                                        THEN Append(symbol_calls,
                                                 [tx_hash |-> tx_hash,
                                                  mints |-> outcome.symbol_calls])
                                        ELSE symbol_calls
                     /\ index' = index + 1
                     /\ pc' = IF LimitReached(operation_limit, index') THEN "done"
                              ELSE "loop"
    /\ UNCHANGED <<chain, operation_limit, confirmed_signatures>>
    /\ UNCHANGED mainvars

\* the iterator is exhausted: fetch_transactions returns records
Return ==
    /\ pc = "loop"
    /\ cursor = Len(confirmed_signatures)
    /\ pc' = "done"
    /\ UNCHANGED <<chain, operation_limit, confirmed_signatures, cursor, index, records,
                   fetched, detected, symbol_calls>>
    /\ UNCHANGED mainvars

Next == GetSignatures \/ GetSignaturesFails \/ LoopBody \/ Return

Spec == Init /\ [][Next]_vars

----------------------------------------------------------------------------
(* One listed signature, over a wide range of transactions *)

SeqsUpTo2(S) == {<<>>} \cup {<<a>> : a \in S} \cup {<<a, b>> : a \in S, b \in S}

\* pre-snapshot entries: owned by the wallet or by someone else, amount 1
WidePreEntries ==
    {TokenBalance(1, mint, Some(owner), Some(1)) : mint \in Mints, owner \in {Wallet, Other}}

\* post-snapshot entries
WidePostEntries ==
    {TokenBalance(1, mint, Some(Wallet), Some(a)) : mint \in Mints, a \in 0..MaxUiAmount}

WidePreSections == {None} \cup {Some(l) : l \in SeqsUpTo2(WidePreEntries)}
WidePostSections == {None} \cup {Some(l) : l \in SeqsUpTo2(WidePostEntries)}

\* the account-key table with the native balance b of the wallet's slot
\* (the first slot when the wallet is not a key)
WideKeyTables == {<<Wallet, Other>>, <<Other, Wallet>>, <<Other, Other>>}
BalancesFor(account_keys, b) ==
    IF account_keys[1] = Wallet \/ account_keys[2] /= Wallet THEN <<b, 0>> ELSE <<0, b>>

\* snapshots the RPC node can also serve: no block time, no owner, no
\* ui_amount, an empty key table, balance arrays shorter than the key table
EdgeTxs ==
    {Tx(Some(Meta(1, <<1, 0>>, <<3, 0>>, None, None)), "Json", "Raw",
        <<Wallet, Other>>, None),
     JsonTx(<<>>, 1, <<>>, <<>>, None, None),
     JsonTx(<<Wallet>>, 0, <<1>>, <<1>>,
            Some(<<TokenBalance(0, "M1", Some(Wallet), None)>>),
            Some(<<TokenBalance(0, "M1", Some(Wallet), Some(2))>>)),
     JsonTx(<<Wallet>>, 0, <<1>>, <<1>>,
            Some(<<TokenBalance(0, "M1", None, Some(1))>>),
            Some(<<TokenBalance(0, "M1", None, Some(2))>>)),
     JsonTx(<<Other, Wallet>>, 1, <<1>>, <<1, 2>>, None, None),
     JsonTx(<<Wallet, Other>>, 0, <<1, 0>>, <<1, 0>>,
            Some(<<TokenBalance(0, "M3", Some(Wallet), Some(2))>>),
            Some(<<TokenBalance(0, "M3", Some(Wallet), Some(0))>>))}

\* the wallet at both indices of the account-key table, each index with
\* balances of its own
RepeatedKeyTxs ==
    {JsonTx(<<Wallet, Wallet>>, fee, <<1, pre2>>, <<post1, post2>>, None, None) :
        fee \in Fees, pre2 \in 0..MaxLamports, post1 \in 0..MaxLamports,
        post2 \in 0..MaxLamports}

WideTxs ==
    RejectedTxs \cup EdgeTxs \cup RepeatedKeyTxs \cup
    {JsonTx(keys, fee, BalancesFor(keys, 1), BalancesFor(keys, post), pre_tb, post_tb) :
        keys \in WideKeyTables, fee \in Fees, post \in 0..MaxLamports,
        pre_tb \in WidePreSections, post_tb \in WidePostSections}

WideEntries == {BadSignature, TransportError} \cup {Served(tx) : tx \in WideTxs}

InitWide ==
    /\ chain \in {<<e>> : e \in WideEntries}
    /\ operation_limit \in {0, 1}
    /\ pc = "start"
    /\ confirmed_signatures = <<>>
    /\ cursor = 0
    /\ index = 0
    /\ records = <<>>
    /\ fetched = <<>>
    /\ detected = <<>>
    /\ symbol_calls = <<>>
    /\ MainCalledFetch

SpecWide == InitWide /\ [][Next]_vars

----------------------------------------------------------------------------
(* FileExporterService: save_transactions_to_csv *)

\* the tokens of a string of the model
Chars(s) ==
    CASE s = ""    -> <<>>
      [] s = "A,B" -> <<"A", ",", "B">>
      [] OTHER     -> <<s>>

RECURSIVE IntDigits(_)
\* the decimal digits of a natural number
IntDigits(n) ==
    IF n < 10 THEN <<ToString(n)>> ELSE IntDigits(n \div 10) \o <<ToString(n % 10)>>

RECURSIVE FixedDigits(_, _)
\* the last width decimal digits of n, leading zeros kept
FixedDigits(n, width) ==
    IF width = 0 THEN <<>> ELSE FixedDigits(n \div 10, width - 1) \o <<ToString(n % 10)>>

RECURSIVE TrimZeros(_)
TrimZeros(ds) ==
    IF ds /= <<>> /\ ds[Len(ds)] = "0" THEN TrimZeros(SubSeq(ds, 1, Len(ds) - 1)) ELSE ds

\* f64::to_string of the decimal x / SCALE: the whole part, then the point and
\* the fraction digits when the fraction is not zero
FormatF64(x) ==
    LET whole == Abs(x) \div SCALE
        frac == Abs(x) % SCALE
    IN (IF x < 0 THEN <<"-">> ELSE <<>>)
           \o IntDigits(whole)
           \o (IF frac = 0 THEN <<>> ELSE <<".">> \o TrimZeros(FixedDigits(frac, 9)))

\* an absent amount is written as nothing at all
AmountOrNA_Empty(amount) ==
    IF IsSome(amount) THEN FormatF64(Unwrap(amount)) ELSE <<>>

\* amount.map_or("N/A".to_string(), |amt| amt.to_string())
AmountOrNA(amount) ==
    IF IsSome(amount) THEN FormatF64(Unwrap(amount)) ELSE <<"N/A">>

\* currency.as_deref().unwrap_or("N/A")
CurrencyOrNA(currency) ==
    IF IsSome(currency) THEN Chars(Unwrap(currency)) ELSE <<"N/A">>

RECURSIVE Join(_)
\* the fields with a comma between neighbours
Join(fields) ==
    IF Len(fields) = 0 THEN <<>>
    ELSE IF Len(fields) = 1 THEN fields[1]
    ELSE fields[1] \o <<",">> \o Join(Tail(fields))

\* the header line
HeaderRow ==
    Join(<<<<"date">>, <<"tx_hash">>, <<"tx_src">>, <<"tx_dest">>, <<"sent_amount">>,
           <<"sent_currency">>, <<"received_amount">>, <<"received_currency">>,
           <<"fee_amount">>, <<"fee_currency">>>>)

\* the line "{},{},{},{},{},{},{},{},{},{}" of one record
Row(record) ==
    Join(<<Chars(record.date),
           IntDigits(record.tx_hash),
           Chars(record.tx_src),
           Chars(record.tx_dest),
           AmountOrNA(record.sent_amount),
           CurrencyOrNA(record.sent_currency),
           AmountOrNA(record.received_amount),
           CurrencyOrNA(record.received_currency),
           FormatF64(record.fee_amount),
           Chars(record.fee_currency)>>)

\* everything a successful call writes
Lines(transactions) ==
    <<HeaderRow>> \o [i \in 1..Len(transactions) |-> Row(transactions[i])]

\* the outcomes of one call, with the file each leaves behind: File::create
\* fails and the file is as before; create truncates and a writeln! fails
\* after n lines; every line is written
save_transactions_to_csv(transactions, old_file) ==
    {[result |-> "Err", file |-> old_file]}
        \cup {[result |-> "Err", file |-> Some(SubSeq(Lines(transactions), 1, n))] :
                  n \in 0..Len(transactions)}
        \cup {[result |-> "Ok", file |-> Some(Lines(transactions))]}

----------------------------------------------------------------------------
(* main *)

\* the command lines clap accepts: an optional address, an optional positive
\* operation limit
ArgAddresses == {None} \cup {Some(a) : a \in InvalidAddresses \cup {Wallet}}
ArgLimits == {None} \cup {Some(n) : n \in 1..MaxSigs}

validate_address(address) ==
    IF ValidPubkey(address) THEN [kind |-> "Ok", value |-> address]
    ELSE [kind |-> "Err", err |-> "Invalid Solana address"]

\* the exporter is called whatever the number of transactions
ShouldExport_Always(transactions) == TRUE

\* if transactions.len() > 0
ShouldExport(transactions) == Len(transactions) > 0

\* what transactions.csv held when the program was started
OldFile == <<<<"old">>>>

\* the transactions main can meet: a rejected one, one with a single account
\* key and no change, a native receipt, and token movements of mints whose
\* symbol resolves to USDC, to A,B, to N/A, and not at all
MainTxs ==
    {Tx(None, "Json", "Raw", <<Wallet, Other>>, Some(86400)),
     JsonTx(<<Wallet>>, 0, <<1>>, <<1>>, None, None),
     JsonTx(<<Other, Wallet>>, 1, <<0, 0>>, <<0, 2>>, None, None),
     JsonTx(<<Wallet, Other>>, 0, <<1, 0>>, <<1, 0>>,
            Some(<<TokenBalance(1, "M1", Some(Wallet), Some(1))>>),
            Some(<<TokenBalance(1, "M1", Some(Wallet), Some(0))>>)),
     JsonTx(<<Wallet, Other>>, 0, <<1, 0>>, <<1, 0>>,
            Some(<<TokenBalance(1, "M4", Some(Wallet), Some(0))>>),
            Some(<<TokenBalance(1, "M4", Some(Wallet), Some(1))>>)),
     JsonTx(<<Wallet, Other>>, 0, <<1, 0>>, <<1, 0>>,
            Some(<<TokenBalance(1, "M5", Some(Wallet), Some(2))>>),
            Some(<<TokenBalance(1, "M5", Some(Wallet), Some(0))>>)),
     JsonTx(<<Wallet, Other>>, 0, <<1, 0>>, <<1, 0>>,
            Some(<<TokenBalance(1, "M2", Some(Wallet), Some(0))>>),
            Some(<<TokenBalance(1, "M2", Some(Wallet), Some(1))>>))}

MainEntries == {BadSignature, TransportError} \cup {Served(tx) : tx \in MainTxs}

InitMain ==
    /\ chain \in Chains(MainEntries, MaxSigs)
    /\ args \in [address : ArgAddresses, operation_limit : ArgLimits]
    /\ file \in {None, Some(OldFile)}
    /\ main_pc = "main"
    /\ exit_code = None
    /\ save_calls = <<>>
    /\ operation_limit = 0
    /\ pc = "start"
    /\ confirmed_signatures = <<>>
    /\ cursor = 0
    /\ index = 0
    /\ records = <<>>
    /\ fetched = <<>>
    /\ detected = <<>>
    /\ symbol_calls = <<>>

\* main up to its call of fetch_transactions, or to std::process::exit(1)
Main ==
    /\ main_pc = "main"
    /\ IF ~IsSome(args.address)
       THEN /\ exit_code' = Some(1)
            /\ main_pc' = "exited"
            /\ UNCHANGED operation_limit
       ELSE IF validate_address(Unwrap(args.address)).kind = "Err"
       THEN /\ exit_code' = Some(1)
            /\ main_pc' = "exited"
            /\ UNCHANGED operation_limit
       ELSE /\ operation_limit' = UnwrapOr(args.operation_limit, 0)
            /\ main_pc' = "fetching"
            /\ UNCHANGED exit_code
    /\ UNCHANGED <<chain, pc, confirmed_signatures, cursor, index, records, fetched,
                   detected, symbol_calls, args, file, save_calls>>

\* fetch_transactions has returned: the export, its result dropped, and the
\* end of main
MainAfterFetch ==
    /\ main_pc = "fetching"
    /\ pc = "done"
    /\ IF ShouldExport(records)
       THEN \E outcome \in save_transactions_to_csv(records, file) :
               /\ file' = outcome.file
               /\ save_calls' = Append(save_calls, outcome.result)
       ELSE UNCHANGED <<file, save_calls>>
    /\ exit_code' = Some(0)
    /\ main_pc' = "exited"
    /\ UNCHANGED <<chain, operation_limit, pc, confirmed_signatures, cursor, index,
                   records, fetched, detected, symbol_calls, args>>

\* a panic inside fetch_transactions unwinds main: the process ends with the
\* status of a panic
MainPanics ==
    /\ main_pc = "fetching"
    /\ pc = "panicked"
    /\ exit_code' = Some(101)
    /\ main_pc' = "exited"
    /\ UNCHANGED <<chain, operation_limit, pc, confirmed_signatures, cursor, index,
                   records, fetched, detected, symbol_calls, args, file,
                   save_calls>>

NextMain ==
    Main \/ GetSignatures \/ GetSignaturesFails \/ LoopBody \/ Return
        \/ MainAfterFetch \/ MainPanics

SpecMain == InitMain /\ [][NextMain]_vars

----------------------------------------------------------------------------
(* Two listed signatures whose transactions carry instructions *)

\* top-level instruction lists and inner instruction sections
InstructionLists ==
    {<<>>, <<Instruction("system", 3)>>, <<Instruction("memo", 0), Instruction("system", 2)>>}
InnerSections ==
    {None, Some(<<>>), Some(<<[index |-> 0, instructions |-> <<Instruction("system", 1)>>]>>)}

\* transactions that parse, each with every instruction payload
PayloadTxs ==
    {WithInstructions(tx, instructions, inner) :
        tx \in {t \in MainTxs : IsSome(t.meta)},
        instructions \in InstructionLists, inner \in InnerSections}

InitPayload ==
    /\ chain \in {<<Served(a), Served(b)>> : a \in PayloadTxs, b \in PayloadTxs}
    /\ operation_limit \in {0, 2}
    /\ pc = "start"
    /\ confirmed_signatures = <<>>
    /\ cursor = 0
    /\ index = 0
    /\ records = <<>>
    /\ fetched = <<>>
    /\ detected = <<>>
    /\ symbol_calls = <<>>
    /\ MainCalledFetch

SpecPayload == InitPayload /\ [][Next]_vars

----------------------------------------------------------------------------
(* Properties *)

Sign(x) == IF x > 0 THEN 1 ELSE IF x < 0 THEN -1 ELSE 0

Listed == 1..Len(confirmed_signatures)

\* signature k was answered with a transaction
Answered(k) == chain[k].signature_wellformed /\ chain[k].response.ok
TxOf(k) == chain[k].response.tx

\* signature k was answered with a transaction that has metadata, JSON
\* encoding and a raw message
Parses(k) ==
    /\ Answered(k)
    /\ IsSome(TxOf(k).meta)
    /\ TxOf(k).encoding = "Json"
    /\ TxOf(k).message.format = "Raw"

\* the deltas computed for signature k
ChangesOf(k) == calculate_balance_changes(Unwrap(TxOf(k).meta), Wallet, TxOf(k).message)
NativeDelta(k) == ChangesOf(k).sol_change
TokenDelta(k) == ChangesOf(k).token_change

HasRecord(k) == \E i \in 1..Len(records) : records[i].tx_hash = k
WasFetched(k) == \E j \in 1..Len(fetched) : fetched[j] = k

\* C1: a transaction that was fetched and parsed and whose native_delta and
\* token_delta are both zero has no record in the returned sequence.
C1_ZeroDeltasNoRecord ==
    \A k \in 1..Len(chain) :
        (WasFetched(k) /\ Parses(k) /\ NativeDelta(k) = 0 /\ TokenDelta(k) = 0)
            => ~HasRecord(k)

\* the decision table of the classifier, by the signs of the two deltas
\* (0 standing for a delta turned into None)
DecisionTable(native, token) ==
    CASE native = 1  /\ token = -1 -> "Token Swap"
      [] native = 1  /\ token = 0  -> "SOL Deposit"
      [] native = -1 /\ token = 0  -> "SOL Withdrawal"
      [] native = 0  /\ token = 1  -> "Token Deposit"
      [] native = 0  /\ token = -1 -> "Token Withdrawal"
      [] native = -1 /\ token = 1  -> "Token Purchase"
      [] native = 1  /\ token = 1  -> "Unknown"
      [] native = -1 /\ token = -1 -> "Unknown"
      [] native = 0  /\ token = 0  -> "Unknown"

\* C2: the category detected for a transaction is the decision table's entry
\* for the signs of its native and token delta, zero deltas counting as None;
\* (>0,>0), (<0,<0) and (None,None) give Unknown.
C2_ClassifierDecisionTable ==
    \A i \in 1..Len(detected) :
        detected[i].transaction_type =
            DecisionTable(Sign(NativeDelta(detected[i].tx_hash)),
                          Sign(TokenDelta(detected[i].tx_hash)))

\* a transaction with both deltas positive was classified Unknown
C2_Witness ==
    \E i \in 1..Len(detected) :
        /\ NativeDelta(detected[i].tx_hash) > 0
        /\ TokenDelta(detected[i].tx_hash) > 0
        /\ detected[i].transaction_type = "Unknown"

\* C3: every record's fee_amount is its transaction's ledger fee divided by
\* SCALE and its fee_currency is "SOL", whatever the signs of the deltas.
C3_FeeAlwaysLedgerFee ==
    \A i \in 1..Len(records) :
        /\ records[i].fee_amount = DivScale(Unwrap(TxOf(records[i].tx_hash).meta).fee)
        /\ records[i].fee_currency = "SOL"

\* two records of one batch, both with a non-zero fee: one of a transaction
\* whose native delta is positive, one of a transaction whose native delta
\* is negative and token delta positive
C3_Witness ==
    /\ Len(records) = 2
    /\ records[1].fee_amount = 1 /\ NativeDelta(1) > 0 /\ TokenDelta(1) < 0
    /\ records[2].fee_amount = 1 /\ NativeDelta(2) < 0 /\ TokenDelta(2) > 0

\* C4: with operation limit N > 0 at most N signatures are fetched and
\* counted, at most N records are held, and the loop is no longer running
\* once N signatures have been processed.
C4_LimitBoundsBatch ==
    operation_limit > 0 =>
        /\ Len(fetched) <= operation_limit
        /\ index <= operation_limit
        /\ Len(records) <= operation_limit
        /\ index >= operation_limit => pc /= "loop"

\* the batch stopped at the limit with a signature left unprocessed
C4_Witness ==
    /\ pc = "done"
    /\ operation_limit = 1
    /\ Len(confirmed_signatures) = 2
    /\ fetched = <<1>>
    /\ Len(records) = 1

\* getTransaction for signature k returned a transport error
TransportFailed(k) == chain[k].signature_wellformed /\ ~chain[k].response.ok

WithinLimit(j) == operation_limit = 0 \/ j <= operation_limit

\* C5: a signature whose getTransaction call failed has no record, and the
\* failure does not end the batch: every later listed signature within the
\* operation limit has been fetched or is still ahead of the running loop;
\* the run is never aborted by the failure (an abort comes only from a
\* signature string that does not parse).
C5_TransportErrorSkipsOnly ==
    \A k \in Listed :
        (WasFetched(k) /\ TransportFailed(k)) =>
            /\ ~HasRecord(k)
            /\ pc = "panicked" => ~confirmed_signatures[cursor].wellformed
            /\ pc /= "panicked" =>
                  \A j \in (k + 1)..Len(confirmed_signatures) :
                      WithinLimit(j) => (WasFetched(j) \/ (pc = "loop" /\ cursor < j))

\* the first signature failed in transport, the second was fetched and gave
\* the only record
C5_Witness ==
    /\ fetched = <<1, 2>>
    /\ TransportFailed(1)
    /\ Len(records) = 1
    /\ records[1].tx_hash = 2

\* the loop is about to take a signature whose transaction will be rejected
RejectedNext ==
    /\ pc = "loop"
    /\ cursor < Len(confirmed_signatures)
    /\ Answered(cursor + 1)
    /\ ~Parses(cursor + 1)

\* C6: a fetched transaction without metadata, not JSON-encoded or without a
\* raw message makes process_transaction_3 return an error; the step that
\* handles it fetches it, leaves the records as they were and leaves the
\* loop running (or ends it only because the operation limit is reached).
C6_ParseFailureSkipsOnly ==
    [][RejectedNext =>
          /\ process_transaction_3(cursor + 1, TxOf(cursor + 1), Wallet).kind = "Err"
          /\ fetched' = Append(fetched, cursor + 1)
          /\ records' = records
          /\ \/ pc' = "loop" /\ cursor' = cursor + 1
             \/ pc' = "done" /\ operation_limit > 0 /\ index' >= operation_limit]_vars

\* the first transaction was rejected, the second was fetched and gave the
\* only record
C6_Witness ==
    /\ fetched = <<1, 2>>
    /\ Answered(1) /\ ~Parses(1)
    /\ Len(records) = 1
    /\ records[1].tx_hash = 2

IsPrefix(s, t) == Len(s) <= Len(t) /\ \A i \in 1..Len(s) : s[i] = t[i]

\* position of signature h in the listing
PositionOf(h) == CHOOSE k \in Listed : confirmed_signatures[k].signature = h

\* records are in the order of their signatures in the listing, one at most
\* per signature
RecordsInListingOrder ==
    \A i \in 1..Len(records) :
        /\ \E k \in Listed : confirmed_signatures[k].signature = records[i].tx_hash
        /\ \A j \in 1..Len(records) :
              i < j => PositionOf(records[i].tx_hash) < PositionOf(records[j].tx_hash)

\* C7: the records are in the relative order of their signatures in the
\* listing, no signature has two records, and every step leaves the records
\* held before it as a prefix of the records held after it.
C7_RecordsOrderedAppendOnly ==
    /\ []RecordsInListingOrder
    /\ [][IsPrefix(records, records')]_vars

\* both signatures of a listing of two gave a record
C7_Witness ==
    /\ Len(records) = 2
    /\ records[1].tx_hash = 1
    /\ records[2].tx_hash = 2

\* C8: a record's sent_amount is present exactly when native_delta < 0 or
\* token_delta < 0, and then is the absolute value of the smaller delta.
C8_SentAmount ==
    \A i \in 1..Len(records) :
        LET native == NativeDelta(records[i].tx_hash)
            token == TokenDelta(records[i].tx_hash)
            least == IF native <= token THEN native ELSE token
        IN /\ IsSome(records[i].sent_amount) <=> (native < 0 \/ token < 0)
           /\ IsSome(records[i].sent_amount) => Unwrap(records[i].sent_amount) = 0 - least

\* both deltas negative, the token delta the smaller one, and the record
\* holds its absolute value
C8_Witness ==
    \E i \in 1..Len(records) :
        /\ NativeDelta(records[i].tx_hash) = -1
        /\ TokenDelta(records[i].tx_hash) = -2
        /\ records[i].sent_amount = Some(2)

\* C9: a record's sent_currency is "SOL" when native_delta < 0; otherwise,
\* when token_delta < 0, what the symbol resolver returns for token_mint;
\* otherwise absent.
C9_SentCurrency ==
    \A i \in 1..Len(records) :
        LET k == records[i].tx_hash
        IN /\ NativeDelta(k) < 0 => records[i].sent_currency = Some("SOL")
           /\ (NativeDelta(k) >= 0 /\ TokenDelta(k) < 0) =>
                 /\ IsSome(ChangesOf(k).token_mint)
                 /\ records[i].sent_currency =
                        get_token_symbol_2(Unwrap(ChangesOf(k).token_mint))
           /\ (NativeDelta(k) >= 0 /\ TokenDelta(k) >= 0) =>
                 records[i].sent_currency = None

\* native delta not negative, token delta negative, the mint resolved
C9_Witness ==
    \E i \in 1..Len(records) :
        /\ NativeDelta(records[i].tx_hash) >= 0
        /\ TokenDelta(records[i].tx_hash) < 0
        /\ ChangesOf(records[i].tx_hash).token_mint = Some("M1")
        /\ records[i].sent_currency = Some("USDC")

\* C10: a record's received_amount is present exactly when native_delta > 0
\* or token_delta > 0 and then is the larger delta; received_currency is
\* "SOL" when native_delta > 0, otherwise what the symbol resolver returns
\* for token_mint when token_delta > 0, otherwise absent.
C10_Received ==
    \A i \in 1..Len(records) :
        LET k == records[i].tx_hash
            native == NativeDelta(k)
            token == TokenDelta(k)
            greatest == IF native >= token THEN native ELSE token
        IN /\ IsSome(records[i].received_amount) <=> (native > 0 \/ token > 0)
           /\ IsSome(records[i].received_amount) =>
                 Unwrap(records[i].received_amount) = greatest
           /\ native > 0 => records[i].received_currency = Some("SOL")
           /\ (native <= 0 /\ token > 0) =>
                 /\ IsSome(ChangesOf(k).token_mint)
                 /\ records[i].received_currency =
                        get_token_symbol_2(Unwrap(ChangesOf(k).token_mint))
           /\ (native <= 0 /\ token <= 0) => records[i].received_currency = None

\* native delta negative, token delta positive: the token amount received,
\* labelled with the resolved symbol
C10_Witness ==
    \E i \in 1..Len(records) :
        /\ NativeDelta(records[i].tx_hash) < 0
        /\ TokenDelta(records[i].tx_hash) = 2
        /\ records[i].received_amount = Some(2)
        /\ records[i].received_currency = Some("USDC")

----------------------------------------------------------------------------
(* Properties of symbol resolution, termination and aborts *)

\* the record of signature k needs a token label on its sent side, or on
\* its received side
NeedsSentTokenLabel(k) == NativeDelta(k) >= 0 /\ TokenDelta(k) < 0
NeedsReceivedTokenLabel(k) == NativeDelta(k) <= 0 /\ TokenDelta(k) > 0

\* the resolver fails for the mint of signature k
ResolverFails(k) ==
    /\ IsSome(ChangesOf(k).token_mint)
    /\ get_token_symbol_2(Unwrap(ChangesOf(k).token_mint)) = None

\* C11: when a record needs a token currency label and the symbol resolver
\* fails for the mint, the record is still built and the token currency
\* field is present (it holds a placeholder symbol), not absent.
C11_PlaceholderOnResolverFailure ==
    /\ \A k \in 1..Len(chain) :
          (WasFetched(k) /\ Parses(k) /\ ResolverFails(k)) => HasRecord(k)
    /\ \A i \in 1..Len(records) :
          LET k == records[i].tx_hash
          IN /\ (NeedsSentTokenLabel(k) /\ ResolverFails(k)) =>
                    IsSome(records[i].sent_currency)
             /\ (NeedsReceivedTokenLabel(k) /\ ResolverFails(k)) =>
                    IsSome(records[i].received_currency)

\* fetch_transactions has ended, by returning or by a panic inside the loop
Ended == pc = "done" \/ (pc = "panicked" /\ cursor > 0)

\* C12: with operation limit 0, when fetch_transactions has ended every
\* listed signature has been processed exactly once: the fetches are the
\* listing, in order, and the counter is its length.
C12_UnboundedProcessesAll ==
    (operation_limit = 0 /\ Ended) =>
        /\ fetched = [k \in Listed |-> confirmed_signatures[k].signature]
        /\ index = Len(confirmed_signatures)

\* C14: the run is aborted only by the failure of the signature listing:
\* nothing tied to one signature or transaction aborts it.
C14_OnlyListingFailureAborts ==
    pc = "panicked" => cursor = 0

----------------------------------------------------------------------------
(* Properties of the balance-delta extractor *)

MetaOf(k) == Unwrap(TxOf(k).meta)
KeysOf(k) == TxOf(k).message.account_keys

\* the wallet's positions in the account-key table of signature k
WalletPositions(k) == {i \in 1..Len(KeysOf(k)) : KeysOf(k)[i] = Wallet}
FirstWalletPosition(k) == CHOOSE i \in WalletPositions(k) : \A j \in WalletPositions(k) : i <= j

\* the wallet is an account key of signature k and both native-balance
\* arrays reach its position
WalletHasNativeBalances(k) ==
    /\ WalletPositions(k) /= {}
    /\ FirstWalletPosition(k) <= Len(MetaOf(k).pre_balances)
    /\ FirstWalletPosition(k) <= Len(MetaOf(k).post_balances)

\* C18: native_delta is (post - pre) / SCALE - fee / SCALE, with pre and post
\* the native balances at the wallet's position in the account-key table;
\* the fee is subtracted whether or not the wallet is the fee payer.
C18_NativeDeltaMinusFee ==
    \A i \in 1..Len(records) :
        LET k == records[i].tx_hash
            w == FirstWalletPosition(k)
        IN WalletHasNativeBalances(k) =>
              NativeDelta(k) = DivScale(MetaOf(k).post_balances[w] - MetaOf(k).pre_balances[w])
                                   - DivScale(MetaOf(k).fee)

\* the wallet is the second account key, not the fee payer: its balance rose
\* by 2 and the fee of 1 was still subtracted
C18_Witness ==
    \E i \in 1..Len(records) :
        LET k == records[i].tx_hash
        IN /\ KeysOf(k) = <<Other, Wallet>>
           /\ WalletHasNativeBalances(k)
           /\ MetaOf(k).fee = 1
           /\ MetaOf(k).post_balances[2] - MetaOf(k).pre_balances[2] = 2
           /\ NativeDelta(k) = 1
           /\ records[i].received_amount = Some(1)

RECURSIVE SumAmounts(_, _, _)
\* the sum of the ui_amounts of the entries of list l, from entry i on, that
\* belong to the wallet and to mint m
SumAmounts(l, i, m) ==
    IF i > Len(l) THEN 0
    ELSE (IF l[i].owner = Some(Wallet) /\ l[i].mint = m THEN UnwrapOr(l[i].ui_amount, 0) ELSE 0)
         + SumAmounts(l, i + 1, m)

WalletMints(l) == {l[i].mint : i \in {j \in 1..Len(l) : l[j].owner = Some(Wallet)}}

\* no (mint, owner) occurs twice in list l
DistinctKeys(l) ==
    \A i \in 1..Len(l) : \A j \in 1..Len(l) :
        (i /= j) => (l[i].mint /= l[j].mint \/ l[i].owner /= l[j].owner)

RECURSIVE SumOver(_, _, _)
\* the sum, over the mints of set ms, of post amount minus pre amount
SumOver(ms, pre, post) ==
    IF ms = {} THEN 0
    ELSE LET m == CHOOSE x \in ms : TRUE
         IN (SumAmounts(post, 1, m) - SumAmounts(pre, 1, m)) + SumOver(ms \ {m}, pre, post)

\* the wallet's entries paired by (mint, owner), whatever their list positions
KeyedTokenDelta(pre, post) ==
    SumOver(WalletMints(pre) \cap WalletMints(post), pre, post)

\* C19: token_delta is the sum of post.ui_amount - pre.ui_amount over the
\* wallet's entries paired by (mint, owner), whatever the order and the
\* lengths of the two lists.
C19_TokenDeltaPairedByKey ==
    \A i \in 1..Len(records) :
        LET k == records[i].tx_hash
            pre == MetaOf(k).pre_token_balances
            post == MetaOf(k).post_token_balances
        IN (/\ WalletPositions(k) /= {}
            /\ IsSome(pre) /\ IsSome(post)
            /\ DistinctKeys(Unwrap(pre)) /\ DistinctKeys(Unwrap(post))) =>
              TokenDelta(k) = KeyedTokenDelta(Unwrap(pre), Unwrap(post))

\* C20: when the pre or the post token-balance list is absent, token_delta
\* is 0, token_mint is None, and the native delta is computed as usual.
C20_AbsentTokenSections ==
    \A i \in 1..Len(records) :
        LET k == records[i].tx_hash
        IN (~IsSome(MetaOf(k).pre_token_balances) \/ ~IsSome(MetaOf(k).post_token_balances)) =>
              /\ TokenDelta(k) = 0
              /\ ChangesOf(k).token_mint = None
              /\ NativeDelta(k) = NativeChange(MetaOf(k), KeysOf(k), Wallet)
                                      - DivScale(MetaOf(k).fee)

\* the pre list is absent, the post list holds an entry of the wallet, and
\* the record shows only the native amount received
C20_Witness ==
    \E i \in 1..Len(records) :
        LET k == records[i].tx_hash
        IN /\ ~IsSome(MetaOf(k).pre_token_balances)
           /\ IsSome(MetaOf(k).post_token_balances)
           /\ Len(Unwrap(MetaOf(k).post_token_balances)) = 1
           /\ Unwrap(MetaOf(k).post_token_balances)[1].ui_amount = Some(2)
           /\ NativeDelta(k) = 2
           /\ records[i].received_amount = Some(2)
           /\ records[i].received_currency = Some("SOL")
           /\ records[i].sent_amount = None

----------------------------------------------------------------------------
(* Properties of main and of the exported file *)

AddressMissingOrInvalid ==
    ~IsSome(args.address) \/ ~ValidPubkey(Unwrap(args.address))

\* the signature listing or a transaction fetch has been requested
LedgerCalled == pc /= "start" \/ fetched /= <<>>

\* C13: the program exits with code 1 when the address is missing or
\* invalid, no ledger call having happened before; every other run exits
\* with code 0.
C13_ExitCodes ==
    main_pc = "exited" =>
        IF AddressMissingOrInvalid
        THEN exit_code = Some(1) /\ ~LedgerCalled
        ELSE exit_code = Some(0)

\* C15: while the record sequence is empty the exporter is not invoked and
\* the output file is neither created nor truncated; so a run whose
\* fetch_transactions returned no record ends with the file as it found it.
C15_NoExportWithoutRecords ==
    /\ [](records = <<>> => save_calls = <<>>)
    /\ [][records' = <<>> => (file' = file /\ save_calls' = save_calls)]_vars

\* two transactions were fetched, neither gave a record, and the program
\* ended with status 0 and the old file in place
C15_Witness ==
    /\ main_pc = "exited"
    /\ exit_code = Some(0)
    /\ Len(fetched) = 2
    /\ records = <<>>
    /\ save_calls = <<>>
    /\ file = Some(OldFile)

\* the ten fields of a record in the order of the columns, an absent one as N/A
ColumnTexts(r) ==
    <<Chars(r.date),
      IntDigits(r.tx_hash),
      Chars(r.tx_src),
      Chars(r.tx_dest),
      IF r.sent_amount = None THEN <<"N/A">> ELSE FormatF64(r.sent_amount[1]),
      IF r.sent_currency = None THEN <<"N/A">> ELSE Chars(r.sent_currency[1]),
      IF r.received_amount = None THEN <<"N/A">> ELSE FormatF64(r.received_amount[1]),
      IF r.received_currency = None THEN <<"N/A">> ELSE Chars(r.received_currency[1]),
      FormatF64(r.fee_amount),
      Chars(r.fee_currency)>>

ColumnNames ==
    <<"date", "tx_hash", "tx_src", "tx_dest", "sent_amount", "sent_currency",
      "received_amount", "received_currency", "fee_amount", "fee_currency">>

\* the texts of sequence fs, from the i-th on, with commas between them
RECURSIVE CommaSeparated(_, _)
CommaSeparated(fs, i) ==
    IF i > Len(fs) THEN <<>>
    ELSE IF i = Len(fs) THEN fs[i]
    ELSE fs[i] \o <<",">> \o CommaSeparated(fs, i + 1)

SaveSucceeded == save_calls /= <<>> /\ save_calls[Len(save_calls)] = "Ok"

\* C16: a call of save_transactions_to_csv that succeeds leaves a file of
\* one header row, then one row per record in the order of the records,
\* each of the ten columns date, tx_hash, tx_src, tx_dest, sent_amount,
\* sent_currency, received_amount, received_currency, fee_amount,
\* fee_currency in that order, absent optional fields written as N/A.
C16_CsvLayout ==
    SaveSucceeded =>
        /\ IsSome(file)
        /\ Len(Unwrap(file)) = 1 + Len(records)
        /\ Unwrap(file)[1] = CommaSeparated([c \in 1..10 |-> <<ColumnNames[c]>>], 1)
        /\ \A i \in 1..Len(records) :
              Unwrap(file)[i + 1] = CommaSeparated(ColumnTexts(records[i]), 1)

\* two records were exported over the old file: the first has no sent side,
\* the second no received side
C16_Witness ==
    /\ SaveSucceeded
    /\ Len(records) = 2
    /\ records[1].sent_amount = None /\ records[1].received_currency = Some("SOL")
    /\ records[2].received_amount = None /\ records[2].sent_currency = Some("USDC")
    /\ Len(Unwrap(file)) = 3
    /\ Unwrap(file)[2] =
           <<"1970-01-02 00:00:00", ",", "1", ",", "O", ",", "W", ",", "N/A", ",", "N/A",
             ",", "0", ".", "0", "0", "0", "0", "0", "0", "0", "0", "1", ",", "SOL", ",",
             "0", ".", "0", "0", "0", "0", "0", "0", "0", "0", "1", ",", "SOL">>

RECURSIVE SplitOnCommas(_, _, _)
\* the fields of a line: the tokens between its commas
SplitOnCommas(line, i, current) ==
    IF i > Len(line) THEN <<current>>
    ELSE IF line[i] = "," THEN <<current>> \o SplitOnCommas(line, i + 1, <<>>)
    ELSE SplitOnCommas(line, i + 1, Append(current, line[i]))

DigitValue(t) == CHOOSE d \in 0..9 : ToString(d) = t

RECURSIVE DigitsValue(_, _)
\* the number written by the digits ds, continuing from the value acc
DigitsValue(ds, acc) ==
    IF ds = <<>> THEN acc ELSE DigitsValue(Tail(ds), acc * 10 + DigitValue(Head(ds)))

RECURSIVE PadRight(_, _)
PadRight(ds, width) == IF Len(ds) >= width THEN ds ELSE PadRight(Append(ds, "0"), width)

\* the decimal a field of digits and at most one point stands for, as its
\* count of 1/SCALE parts
ParseF64(field) ==
    LET points == {i \in 1..Len(field) : field[i] = "."}
    IN IF points = {} THEN DigitsValue(field, 0) * SCALE
       ELSE LET p == CHOOSE i \in points : TRUE
            IN DigitsValue(SubSeq(field, 1, p - 1), 0) * SCALE
                   + DigitsValue(PadRight(SubSeq(field, p + 1, Len(field)), 9), 0)

\* N/A read back as absent
Optional(field) == IF field = <<"N/A">> THEN None ELSE Some(field)
OptionalNumber(field) == IF field = <<"N/A">> THEN None ELSE Some(ParseF64(field))
TextOf(currency) == IF IsSome(currency) THEN Some(Chars(Unwrap(currency))) ELSE None

\* the fields of the line give back the ten values of record r
ReadsBack(line, r) ==
    LET fs == SplitOnCommas(line, 1, <<>>)
    IN /\ Len(fs) = 10
       /\ fs[1] = Chars(r.date)
       /\ DigitsValue(fs[2], 0) = r.tx_hash
       /\ fs[3] = Chars(r.tx_src)
       /\ fs[4] = Chars(r.tx_dest)
       /\ OptionalNumber(fs[5]) = r.sent_amount
       /\ Optional(fs[6]) = TextOf(r.sent_currency)
       /\ OptionalNumber(fs[7]) = r.received_amount
       /\ Optional(fs[8]) = TextOf(r.received_currency)
       /\ ParseF64(fs[9]) = r.fee_amount
       /\ fs[10] = Chars(r.fee_currency)

\* C17: splitting a written data row on commas and reading N/A as absent
\* gives back the ten field values of its record, also when a symbol holds
\* a comma or is the text N/A.
C17_RowsReadBack ==
    SaveSucceeded =>
        \A i \in 1..Len(records) : ReadsBack(Unwrap(file)[i + 1], records[i])

----------------------------------------------------------------------------
(* Properties of the token mint the extractor reports *)

\* the positions at which the pre and post token lists of signature k hold a
\* pair of the wallet: same position, wallet among the account keys, pre
\* entry owned by the wallet, same mint
MatchedPairs(k) ==
    IF IsSome(MetaOf(k).pre_token_balances) /\ IsSome(MetaOf(k).post_token_balances)
    THEN LET pre == Unwrap(MetaOf(k).pre_token_balances)
             post == Unwrap(MetaOf(k).post_token_balances)
         IN {i \in 1..Min(Len(pre), Len(post)) :
                /\ WalletPositions(k) /= {}
                /\ pre[i].owner = Some(Wallet)
                /\ pre[i].mint = post[i].mint}
    ELSE {}

PairDifference(k, i) ==
    UnwrapOr(Unwrap(MetaOf(k).post_token_balances)[i].ui_amount, 0)
        - UnwrapOr(Unwrap(MetaOf(k).pre_token_balances)[i].ui_amount, 0)

\* the matched pairs whose amounts differ
ChangedPairs(k) == {i \in MatchedPairs(k) : PairDifference(k, i) /= 0}

LastOf(S) == CHOOSE i \in S : \A j \in S : j <= i

\* C21: with several matched pairs of non-zero difference, token_mint is the
\* mint of the last of them in list order; a pair of zero difference never
\* changes token_mint.
C21_LastChangedMintWins ==
    \A r \in 1..Len(records) :
        LET k == records[r].tx_hash
        IN ChangedPairs(k) /= {} =>
              ChangesOf(k).token_mint =
                  Some(Unwrap(MetaOf(k).pre_token_balances)[LastOf(ChangedPairs(k))].mint)

\* two matched pairs of different mints, both changed: the second mint is
\* reported
C21_Witness ==
    \E r \in 1..Len(records) :
        LET k == records[r].tx_hash
        IN /\ ChangedPairs(k) = {1, 2}
           /\ Unwrap(MetaOf(k).pre_token_balances)[1].mint = "M1"
           /\ Unwrap(MetaOf(k).pre_token_balances)[2].mint = "M2"
           /\ ChangesOf(k).token_mint = Some("M2")

----------------------------------------------------------------------------
(* Properties of a wallet that occurs more than once in the key table *)

\* C22: when the wallet occurs at more than one index of the account-key
\* table, native_delta comes from the pre and post native balances at the
\* first such index only.
C22_FirstWalletIndexOnly ==
    \A r \in 1..Len(records) :
        LET k == records[r].tx_hash
            first == FirstWalletPosition(k)
        IN (Cardinality(WalletPositions(k)) > 1 /\ WalletHasNativeBalances(k)) =>
              NativeDelta(k) + DivScale(MetaOf(k).fee) =
                  DivScale(MetaOf(k).post_balances[first] - MetaOf(k).pre_balances[first])

\* the wallet is at both indices; at the first its balance rose by 2, at the
\* second it fell by 3, and the record shows 2 received
C22_Witness ==
    \E r \in 1..Len(records) :
        LET k == records[r].tx_hash
        IN /\ KeysOf(k) = <<Wallet, Wallet>>
           /\ MetaOf(k).fee = 0
           /\ MetaOf(k).pre_balances = <<1, 3>>
           /\ MetaOf(k).post_balances = <<3, 0>>
           /\ records[r].received_amount = Some(2)
           /\ records[r].sent_amount = None

----------------------------------------------------------------------------
(* Properties of what a record depends on *)

\* transactions a and b agree on balance snapshots, fee and account keys
SameSnapshots(a, b) ==
    /\ a.message.account_keys = b.message.account_keys
    /\ Unwrap(a.meta).fee = Unwrap(b.meta).fee
    /\ Unwrap(a.meta).pre_balances = Unwrap(b.meta).pre_balances
    /\ Unwrap(a.meta).post_balances = Unwrap(b.meta).post_balances
    /\ Unwrap(a.meta).pre_token_balances = Unwrap(b.meta).pre_token_balances
    /\ Unwrap(a.meta).post_token_balances = Unwrap(b.meta).post_token_balances

SameAmountFields(r, q) ==
    /\ r.sent_amount = q.sent_amount
    /\ r.sent_currency = q.sent_currency
    /\ r.received_amount = q.received_amount
    /\ r.received_currency = q.received_currency
    /\ r.fee_amount = q.fee_amount
    /\ r.fee_currency = q.fee_currency

\* C23: two transactions that agree on balance snapshots, fee and account
\* keys give records with the same sent, received and fee fields, whatever
\* their top-level and inner instruction lists.
C23_InstructionsIgnored ==
    \A i \in 1..Len(records) : \A j \in 1..Len(records) :
        SameSnapshots(TxOf(records[i].tx_hash), TxOf(records[j].tx_hash)) =>
            SameAmountFields(records[i], records[j])

\* two records of transactions with the same snapshots: the first carries no
\* instruction, the second a transfer of 3 and an inner transfer of 1
C23_Witness ==
    /\ Len(records) = 2
    /\ SameSnapshots(TxOf(1), TxOf(2))
    /\ TxOf(1).message.instructions = <<>>
    /\ Unwrap(TxOf(1).meta).inner_instructions = None
    /\ TxOf(2).message.instructions = <<Instruction("system", 3)>>
    /\ IsSome(Unwrap(TxOf(2).meta).inner_instructions)
    /\ Unwrap(Unwrap(TxOf(2).meta).inner_instructions) /= <<>>
    /\ records[1].sent_amount = Some(1)
    /\ records[2].sent_amount = Some(1)

----------------------------------------------------------------------------
(* Properties of the two sides of a record *)

\* the label the resolver gives the token mint of signature k
TokenLabel(k) ==
    IF IsSome(ChangesOf(k).token_mint)
    THEN get_token_symbol_2(Unwrap(ChangesOf(k).token_mint))
    ELSE None

\* currency labels the asset whose delta is the given one
LabelsAssetWithDelta(k, currency, delta) ==
    \/ currency = Some(SOL) /\ NativeDelta(k) = delta
    \/ IsSome(TokenLabel(k)) /\ currency = TokenLabel(k) /\ TokenDelta(k) = delta

\* C24: when the amount and the currency of a side are both present, the
\* currency labels the asset whose delta is that amount (negated on the
\* sent side), also when both deltas have the same sign.
C24_AmountAndCurrencySameAsset ==
    \A r \in 1..Len(records) :
        LET k == records[r].tx_hash
        IN /\ (IsSome(records[r].sent_amount) /\ IsSome(records[r].sent_currency)) =>
                  LabelsAssetWithDelta(k, records[r].sent_currency,
                                       0 - Unwrap(records[r].sent_amount))
           /\ (IsSome(records[r].received_amount) /\ IsSome(records[r].received_currency)) =>
                  LabelsAssetWithDelta(k, records[r].received_currency,
                                       Unwrap(records[r].received_amount))

\* C25: sent_amount is present exactly when sent_currency is, and
\* received_amount exactly when received_currency is, also when the symbol
\* of the mint cannot be resolved.
C25_PairsPresentTogether ==
    \A r \in 1..Len(records) :
        /\ IsSome(records[r].sent_amount) <=> IsSome(records[r].sent_currency)
        /\ IsSome(records[r].received_amount) <=> IsSome(records[r].received_currency)

----------------------------------------------------------------------------
(* Properties of a wallet outside the key table, and of the reported mint *)

\* the token snapshots of signature k hold an entry of the wallet at the same
\* position and of the same mint whose amount changed
WalletTokensChanged(k) ==
    /\ IsSome(MetaOf(k).pre_token_balances) /\ IsSome(MetaOf(k).post_token_balances)
    /\ LET pre == Unwrap(MetaOf(k).pre_token_balances)
           post == Unwrap(MetaOf(k).post_token_balances)
       IN \E i \in 1..Min(Len(pre), Len(post)) :
             /\ pre[i].owner = Some(Wallet)
             /\ pre[i].mint = post[i].mint
             /\ pre[i].ui_amount /= post[i].ui_amount

\* C27: when the wallet is not an account key, native_delta is -fee / SCALE,
\* token_delta is 0 and token_mint is None, even if the token snapshots hold
\* changed entries owned by the wallet; with a fee above zero the record
\* shows the fee as a native amount sent.
C27_WalletNotAmongKeys ==
    /\ \A k \in 1..Len(chain) :
          (WasFetched(k) /\ Parses(k) /\ WalletPositions(k) = {}) => HasRecord(k)
    /\ \A r \in 1..Len(records) :
          LET k == records[r].tx_hash
          IN WalletPositions(k) = {} =>
                /\ NativeDelta(k) = 0 - DivScale(MetaOf(k).fee)
                /\ TokenDelta(k) = 0
                /\ ChangesOf(k).token_mint = None
                /\ MetaOf(k).fee > 0 =>
                      /\ records[r].sent_amount = Some(DivScale(MetaOf(k).fee))
                      /\ records[r].sent_currency = Some(SOL)
                      /\ records[r].received_amount = None
                      /\ records[r].received_currency = None

\* the wallet is no account key, its M1 entry went from 1 to 0, the fee is 1:
\* the record shows 1 SOL sent and nothing else
C27_Witness ==
    \E r \in 1..Len(records) :
        LET k == records[r].tx_hash
        IN /\ KeysOf(k) = <<Other, Other>>
           /\ WalletTokensChanged(k)
           /\ MetaOf(k).fee = 1
           /\ records[r].sent_amount = Some(1)
           /\ records[r].sent_currency = Some(SOL)
           /\ records[r].received_amount = None

\* C28: a non-zero token_delta comes with a token_mint, the mint of a
\* matched pair of non-zero difference; without such a pair token_mint is
\* None.
C28_MintPresentWithTokenDelta ==
    \A r \in 1..Len(records) :
        LET k == records[r].tx_hash
            mint == ChangesOf(k).token_mint
        IN /\ TokenDelta(k) /= 0 => IsSome(mint)
           /\ IsSome(mint) =>
                 \E i \in ChangedPairs(k) :
                     Unwrap(MetaOf(k).pre_token_balances)[i].mint = Unwrap(mint)
           /\ ChangedPairs(k) = {} => mint = None

\* one matched pair fell by 1: token_delta is -1 and its mint is reported;
\* the mint does not resolve and the record still shows the amount sent
C28_Witness ==
    \E r \in 1..Len(records) :
        LET k == records[r].tx_hash
        IN /\ ChangedPairs(k) = {1}
           /\ TokenDelta(k) = -1
           /\ ChangesOf(k).token_mint = Some("M2")
           /\ NativeDelta(k) = 0
           /\ records[r].sent_amount = Some(1)

\* C30: sent_amount and received_amount, when present, are strictly
\* positive.
C30_AmountsPositive ==
    \A r \in 1..Len(records) :
        /\ IsSome(records[r].sent_amount) => Unwrap(records[r].sent_amount) > 0
        /\ IsSome(records[r].received_amount) => Unwrap(records[r].received_amount) > 0

\* the native delta is -1 and the token delta +2: both amounts are present
C30_Witness ==
    \E r \in 1..Len(records) :
        LET k == records[r].tx_hash
        IN /\ NativeDelta(k) = -1 /\ TokenDelta(k) = 2
           /\ records[r].sent_amount = Some(1)
           /\ records[r].received_amount = Some(2)

----------------------------------------------------------------------------
(* Properties of the processed counter *)

\* C26: the processed counter goes up by one for every signature iterated,
\* whatever the outcome (record, parse failure, fetch failure); so with
\* limit N > 0 the batch stops after the first N signatures, even if all of
\* them failed and later ones would have given records.
C26_CounterCountsEverySignature ==
    /\ pc /= "panicked" => (index = cursor /\ index = Len(fetched))
    /\ (operation_limit > 0 /\ pc = "loop") => cursor < operation_limit
    /\ (operation_limit > 0 /\ pc = "done") =>
           cursor = Min(operation_limit, Len(confirmed_signatures))

\* limit 1: the first signature failed to fetch and was counted, the second,
\* which parses, was never fetched
C26_Witness ==
    /\ operation_limit = 1
    /\ pc = "done"
    /\ Len(chain) = 2
    /\ TransportFailed(1)
    /\ Answered(2) /\ Parses(2)
    /\ index = 1
    /\ fetched = <<1>>
    /\ records = <<>>

----------------------------------------------------------------------------
(* Properties of the calls of the symbol resolver *)

\* C29: building one record calls the symbol resolver at most once, and not
\* at all when token_delta is zero or when native_delta and token_delta
\* have the same non-zero sign.
C29_ResolverCalledAtMostOnce ==
    /\ Len(symbol_calls) = Len(records)
    /\ \A c \in 1..Len(symbol_calls) :
          LET k == symbol_calls[c].tx_hash
          IN /\ records[c].tx_hash = k
             /\ Len(symbol_calls[c].mints) <= 1
             /\ TokenDelta(k) = 0 => symbol_calls[c].mints = <<>>
             /\ Sign(NativeDelta(k)) * Sign(TokenDelta(k)) = 1 =>
                   symbol_calls[c].mints = <<>>

\* the native delta is -1, the token delta of M1 is +1: one call, for M1
C29_Witness ==
    \E c \in 1..Len(symbol_calls) :
        LET k == symbol_calls[c].tx_hash
        IN /\ NativeDelta(k) = -1 /\ TokenDelta(k) = 1
           /\ symbol_calls[c].mints = <<"M1">>
           /\ records[c].sent_currency = Some(SOL)
           /\ records[c].received_currency = Some("USDC")

====
